---- MODULE Spec2Model ----
(***************************************************************************)
(* State-machine model of the Dialog widget, src/src/dialog/index.ts.      *)
(*                                                                         *)
(* One DialogBase instance is modelled.  The host framework drives it by   *)
(* render passes (new properties are handed to the instance and render()   *)
(* runs) and by delivering DOM events to the listeners that the last       *)
(* rendered tree carries.  Render passes and handlers run to completion,   *)
(* one at a time.                                                          *)
(***************************************************************************)
EXTENDS Naturals, FiniteSets, Sequences

(***************************************************************************)
(* Optional boolean properties (closeable?, modal?, open?) are tri-state:  *)
(* not supplied, true or false.                                            *)
(***************************************************************************)
Optional == {"undefined", "true", "false"}

\* JavaScript truthiness of an optional boolean.
Truthy(x) == x = "true"

\* A destructuring default, `{ x = d } = this.properties`.
OrDefault(x, d) == IF x = "undefined" THEN d ELSE x = "true"

\* A boolean stored into an optional boolean field.
Stored(b) == IF b THEN "true" ELSE "false"

\* Key codes of keyboard events (event.which); Keys is the enum of ../common/util.
Keys == [Escape |-> 27, Enter |-> 13, Tab |-> 9]

\* The key codes the environment delivers.
KeyCodes == {Keys.Escape, Keys.Enter, Keys.Tab}

(***************************************************************************)
(* Optional string properties (closeText?, title?).  A string is the       *)
(* sequence of its characters; a property that is not supplied is          *)
(* NoString, a supplied string s is Str(s).                                *)
(***************************************************************************)
NoString == << >>

Str(s) == <<s>>

\* The titles and close texts the host supplies: none, the empty string, a text.
Titles == {NoString, Str(<< >>), Str(<<"T", "o">>)}

CloseTexts == {NoString, Str(<< >>), Str(<<"O", "K">>)}

\* The message bundles localizeBundle(commonBundle) resolves, one per locale.
Bundles == {[close |-> <<"c", "l", "o", "s", "e">>],
            [close |-> <<"f", "e", "r", "m", "e", "r">>]}

\* The bundle of the default locale.
DefaultBundle == [close |-> <<"c", "l", "o", "s", "e">>]

\* The properties the model tracks; onOpen and onRequestClose tell whether the
\* callback is supplied.
DialogProperties ==
    [closeable : Optional, modal : Optional, open : Optional,
     onOpen : BOOLEAN, onRequestClose : BOOLEAN,
     closeText : CloseTexts, title : Titles]

\* The properties of an instance that has not been rendered yet.
NoProperties ==
    [closeable |-> "undefined", modal |-> "undefined", open |-> "undefined",
     onOpen |-> FALSE, onRequestClose |-> FALSE,
     closeText |-> NoString, title |-> NoString]

\* Render inputs that leave the texts out.
PlainProperties ==
    {p \in DialogProperties : p.closeText = NoString /\ p.title = NoString}

\* Render inputs that vary the texts and leave modal and the callbacks out.
TextProperties ==
    {p \in DialogProperties :
        p.modal = "undefined" /\ ~p.onOpen /\ ~p.onRequestClose}

\* What one render pass or one handler run did to its collaborators.
\* focusLost counts the entries into the focus-lost branch of _checkFocus.
NoCalls ==
    [onOpen |-> 0, onRequestClose |-> 0, close |-> 0,
     focusGet |-> 0, focusSet |-> 0, stopPropagation |-> 0, focusLost |-> 0]

\* The cap of the history's count of onRequestClose invocations per session.
MaxCloses == 3

\* The tree of a closed dialog: the outer container with no children.
EmptyTree ==
    [global |-> FALSE, underlay |-> FALSE, main |-> FALSE, closeButton |-> FALSE,
     closeText |-> NoString]

VARIABLES
    properties,        \* this.properties, as of the last render pass
    _wasOpen,          \* this._wasOpen
    _callFocus,        \* this._callFocus
    _initialFocusSet,  \* this._initialFocusSet
    dnode,             \* the tree returned by the last render pass
    messages,          \* the message bundle the last render pass resolved
    trace,             \* the last step: which operation ran and what it called
    observed           \* history of the render passes, kept apart from the fields

vars ==
    <<properties, _wasOpen, _callFocus, _initialFocusSet, dnode, messages, trace,
      observed>>

fields == <<_wasOpen, _callFocus, _initialFocusSet>>

(***************************************************************************)
(* The methods.  Each takes the instance `this` (its properties, its three *)
(* fields and the calls made so far in the running step) and returns it as *)
(* the method leaves it.                                                   *)
(***************************************************************************)

\* The focus-lost branch of _checkFocus is entered.
focusLost(this) == [this EXCEPT !.calls.focusLost = @ + 1]

\* event.stopPropagation()
stopPropagation(this) == [this EXCEPT !.calls.stopPropagation = @ + 1]

_close_ignoresCloseable(this) ==
    LET t == [this EXCEPT !.calls.close = @ + 1]
    IN  IF t.properties.onRequestClose
        THEN [t EXCEPT !.calls.onRequestClose = @ + 1]
        ELSE t

_close_clearsWasOpen(this) ==
    LET t == [this EXCEPT !.calls.close = @ + 1, !._wasOpen = "false"]
    IN  IF OrDefault(t.properties.closeable, TRUE) /\ t.properties.onRequestClose
        THEN [t EXCEPT !.calls.onRequestClose = @ + 1]
        ELSE t

\* closeable && onRequestClose && onRequestClose()
_close(this) ==
    LET t == [this EXCEPT !.calls.close = @ + 1]
    IN  IF OrDefault(t.properties.closeable, TRUE) /\ t.properties.onRequestClose
        THEN [t EXCEPT !.calls.onRequestClose = @ + 1]
        ELSE t

_onCloseClick(this) == _close(stopPropagation(this))

_onUnderlayClick_ignoresModal(this) == _close(stopPropagation(this))

_onUnderlayClick_stopsOnlyWhenClosing(this) ==
    IF ~Truthy(this.properties.modal) THEN _close(stopPropagation(this)) ELSE this

\* event.stopPropagation(); !this.properties.modal && this._close()
_onUnderlayClick(this) ==
    LET t == stopPropagation(this)
    IN  IF ~Truthy(t.properties.modal) THEN _close(t) ELSE t

_onKeyUp_anyKeyCloses(this, which) == _close(stopPropagation(this))

_onKeyUp_escapeOnlyWhenNonModal(this, which) ==
    LET t == stopPropagation(this)
    IN  IF which = Keys.Escape /\ ~Truthy(t.properties.modal) THEN _close(t) ELSE t

\* event.stopPropagation(); if (event.which === Keys.Escape) this._close()
_onKeyUp(this, which) ==
    LET t == stopPropagation(this)
    IN  IF which = Keys.Escape THEN _close(t) ELSE t

_onOpen_keepsInitialFocusSet(this) ==
    LET t == [this EXCEPT !._callFocus = TRUE]
    IN  IF t.properties.onOpen THEN [t EXCEPT !.calls.onOpen = @ + 1] ELSE t

\* this._callFocus = true; this._initialFocusSet = false; onOpen && onOpen()
_onOpen(this) ==
    LET t == [this EXCEPT !._callFocus = TRUE, !._initialFocusSet = FALSE]
    IN  IF t.properties.onOpen THEN [t EXCEPT !.calls.onOpen = @ + 1] ELSE t

_checkFocus_runsWhenClosed(this, containsFocus) ==
    LET t0 == [this EXCEPT !.calls.focusGet = @ + 1]
        t1 == IF containsFocus
              THEN [t0 EXCEPT !._callFocus = FALSE, !._initialFocusSet = TRUE]
              ELSE t0
        t2 == IF t1._initialFocusSet /\ ~containsFocus
              THEN IF Truthy(t1.properties.modal)
                   THEN [focusLost(t1) EXCEPT !._callFocus = TRUE]
                   ELSE _close(focusLost(t1))
              ELSE t1
    IN  IF t2._callFocus THEN [t2 EXCEPT !.calls.focusSet = @ + 1] ELSE t2

_checkFocus_neverCloses(this, containsFocus) ==
    IF ~Truthy(this.properties.open)
    THEN this
    ELSE LET t0 == [this EXCEPT !.calls.focusGet = @ + 1]
             t1 == IF containsFocus
                   THEN [t0 EXCEPT !._callFocus = FALSE, !._initialFocusSet = TRUE]
                   ELSE t0
             t2 == IF t1._initialFocusSet /\ ~containsFocus
                   THEN [focusLost(t1) EXCEPT !._callFocus = TRUE]
                   ELSE t1
         IN  IF t2._callFocus THEN [t2 EXCEPT !.calls.focusSet = @ + 1] ELSE t2

_checkFocus_alwaysCloses(this, containsFocus) ==
    IF ~Truthy(this.properties.open)
    THEN this
    ELSE LET t0 == [this EXCEPT !.calls.focusGet = @ + 1]
             t1 == IF containsFocus
                   THEN [t0 EXCEPT !._callFocus = FALSE, !._initialFocusSet = TRUE]
                   ELSE t0
             t2 == IF t1._initialFocusSet /\ ~containsFocus
                   THEN _close(focusLost(t1))
                   ELSE t1
         IN  IF t2._callFocus THEN [t2 EXCEPT !.calls.focusSet = @ + 1] ELSE t2

_checkFocus_keepsCallFocus(this, containsFocus) ==
    IF ~Truthy(this.properties.open)
    THEN this
    ELSE LET t0 == [this EXCEPT !.calls.focusGet = @ + 1]
             t1 == IF containsFocus
                   THEN [t0 EXCEPT !._initialFocusSet = TRUE]
                   ELSE t0
             t2 == IF t1._initialFocusSet /\ ~containsFocus
                   THEN IF Truthy(t1.properties.modal)
                        THEN [focusLost(t1) EXCEPT !._callFocus = TRUE]
                        ELSE _close(focusLost(t1))
                   ELSE t1
         IN  IF t2._callFocus THEN [t2 EXCEPT !.calls.focusSet = @ + 1] ELSE t2

_checkFocus_ignoresInitialFocus(this, containsFocus) ==
    IF ~Truthy(this.properties.open)
    THEN this
    ELSE LET t0 == [this EXCEPT !.calls.focusGet = @ + 1]
             t1 == IF containsFocus
                   THEN [t0 EXCEPT !._callFocus = FALSE, !._initialFocusSet = TRUE]
                   ELSE t0
             t2 == IF ~containsFocus
                   THEN IF Truthy(t1.properties.modal)
                        THEN [focusLost(t1) EXCEPT !._callFocus = TRUE]
                        ELSE _close(focusLost(t1))
                   ELSE t1
         IN  IF t2._callFocus THEN [t2 EXCEPT !.calls.focusSet = @ + 1] ELSE t2

_checkFocus_clearsCallFocusAfterSet(this, containsFocus) ==
    IF ~Truthy(this.properties.open)
    THEN this
    ELSE LET t0 == [this EXCEPT !.calls.focusGet = @ + 1]
             t1 == IF containsFocus
                   THEN [t0 EXCEPT !._callFocus = FALSE, !._initialFocusSet = TRUE]
                   ELSE t0
             t2 == IF t1._initialFocusSet /\ ~containsFocus
                   THEN IF Truthy(t1.properties.modal)
                        THEN [focusLost(t1) EXCEPT !._callFocus = TRUE]
                        ELSE _close(focusLost(t1))
                   ELSE t1
         IN  IF t2._callFocus THEN [t2 EXCEPT !.calls.focusSet = @ + 1, !._callFocus = FALSE] ELSE t2

_checkFocus_closesOnce(this, containsFocus) ==
    IF ~Truthy(this.properties.open)
    THEN this
    ELSE LET t0 == [this EXCEPT !.calls.focusGet = @ + 1]
             t1 == IF containsFocus
                   THEN [t0 EXCEPT !._callFocus = FALSE, !._initialFocusSet = TRUE]
                   ELSE t0
             t2 == IF t1._initialFocusSet /\ ~containsFocus
                   THEN IF Truthy(t1.properties.modal)
                        THEN [focusLost(t1) EXCEPT !._callFocus = TRUE]
                        ELSE [_close(focusLost(t1)) EXCEPT !._initialFocusSet = FALSE]
                   ELSE t1
         IN  IF t2._callFocus THEN [t2 EXCEPT !.calls.focusSet = @ + 1] ELSE t2

_checkFocus_closesAndRefocuses(this, containsFocus) ==
    IF ~Truthy(this.properties.open)
    THEN this
    ELSE LET t0 == [this EXCEPT !.calls.focusGet = @ + 1]
             t1 == IF containsFocus
                   THEN [t0 EXCEPT !._callFocus = FALSE, !._initialFocusSet = TRUE]
                   ELSE t0
             t2 == IF t1._initialFocusSet /\ ~containsFocus
                   THEN IF Truthy(t1.properties.modal)
                        THEN [focusLost(t1) EXCEPT !._callFocus = TRUE]
                        ELSE [_close(focusLost(t1)) EXCEPT !._callFocus = TRUE]
                   ELSE t1
         IN  IF t2._callFocus THEN [t2 EXCEPT !.calls.focusSet = @ + 1] ELSE t2

\* The focus trap, run once per render pass; containsFocus is what
\* this.meta(Focus).get('main') answers when it is asked.
_checkFocus(this, containsFocus) ==
    IF ~Truthy(this.properties.open)
    THEN this
    ELSE LET t0 == [this EXCEPT !.calls.focusGet = @ + 1]
             t1 == IF containsFocus
                   THEN [t0 EXCEPT !._callFocus = FALSE, !._initialFocusSet = TRUE]
                   ELSE t0
             t2 == IF t1._initialFocusSet /\ ~containsFocus
                   THEN IF Truthy(t1.properties.modal)
                        THEN [focusLost(t1) EXCEPT !._callFocus = TRUE]
                        ELSE _close(focusLost(t1))
                   ELSE t1
         IN  IF t2._callFocus THEN [t2 EXCEPT !.calls.focusSet = @ + 1] ELSE t2

updateState_opensOnEveryRender(this, containsFocus) ==
    LET open == OrDefault(this.properties.open, FALSE)
        t1 == IF open THEN _onOpen(this) ELSE this
        t2 == [t1 EXCEPT !._wasOpen = Stored(open)]
    IN  _checkFocus(t2, containsFocus)

updateState_checksFocusBeforeOpen(this, containsFocus) ==
    LET open == OrDefault(this.properties.open, FALSE)
        t1 == _checkFocus(this, containsFocus)
        t2 == IF open /\ ~Truthy(this._wasOpen) THEN _onOpen(t1) ELSE t1
    IN  [t2 EXCEPT !._wasOpen = Stored(open)]

updateState_resetsOnClose(this, containsFocus) ==
    LET open == OrDefault(this.properties.open, FALSE)
        t1 == IF open /\ ~Truthy(this._wasOpen) THEN _onOpen(this) ELSE this
        t2 == IF open THEN t1 ELSE [t1 EXCEPT !._callFocus = FALSE, !._initialFocusSet = FALSE]
        t3 == [t2 EXCEPT !._wasOpen = Stored(open)]
    IN  _checkFocus(t3, containsFocus)

\* The stateful head of render(): the open-transition check, the update of
\* _wasOpen and the focus check.
updateState(this, containsFocus) ==
    LET open == OrDefault(this.properties.open, FALSE)
        t1 == IF open /\ ~Truthy(this._wasOpen) THEN _onOpen(this) ELSE this
        t2 == [t1 EXCEPT !._wasOpen = Stored(open)]
    IN  _checkFocus(t2, containsFocus)

\* A template literal `${a} ${b}`: a, one space, b.
Template(a, b) == a \o <<" ">> \o b

\* The value of a string property under the destructuring default ''.
OrEmpty(s) == IF s = NoString THEN << >> ELSE s[1]

\* !closeText: the property is not supplied or is the empty string.
Falsy(s) == s = NoString \/ s = Str(<< >>)

closeTextOf_ignoresProperty(p, bundle) == Template(bundle.close, OrEmpty(p.title))

\* The text of the close control:
\* if (!closeText) closeText = `${messages.close} ${title}`
closeTextOf(p, bundle) ==
    IF Falsy(p.closeText)
    THEN Template(bundle.close, OrEmpty(p.title))
    ELSE p.closeText[1]

\* The tree render() returns: which listener-carrying nodes it holds and the
\* text of the close button, when there is one.
tree(p, bundle) ==
    LET open == OrDefault(p.open, FALSE)
        button == open /\ OrDefault(p.closeable, TRUE)
    IN  [global |-> open, underlay |-> open, main |-> open,
         closeButton |-> button,
         closeText |-> IF button THEN Str(closeTextOf(p, bundle)) ELSE NoString]

\* render(): the instance as the pass leaves it, and the tree it returns.
render(this, containsFocus, bundle) ==
    [this |-> updateState(this, containsFocus),
     dnode |-> tree(this.properties, bundle)]

(***************************************************************************)
(* The state machine.                                                      *)
(***************************************************************************)

\* The instance at the start of a step, under properties p.
This(p) ==
    [properties |-> p, _wasOpen |-> _wasOpen, _callFocus |-> _callFocus,
     _initialFocusSet |-> _initialFocusSet, calls |-> NoCalls]

\* Write the instance back.
Commit(this) ==
    /\ properties' = this.properties
    /\ _wasOpen' = this._wasOpen
    /\ _callFocus' = this._callFocus
    /\ _initialFocusSet' = this._initialFocusSet

\* The history after a render pass that sees `open` and is answered containsFocus.
\* A session is a maximal run of render passes that see open = true.
\* p are the properties of the pass and calls the calls it made.
\*   prevOpen, lastOpen   open as the pass before the last and the last pass saw it
\*   focusBefore          an earlier pass of the session observed focus inside
\*   focusInSession       a pass of the session, the last included, observed it
\*   lastFocus            the last pass observed focus inside
\*   prevLost             the pass before the last, of the same session, observed
\*                        focus outside after a pass that observed it inside
\*   focusEarlier         a pass of an earlier session observed focus inside
\*   modalInSession       a pass of the session, the last included, saw modal = true
\*   closesBefore, closes onRequestClose invocations by the passes of the session,
\*                        before and after the last pass, counted up to MaxCloses
Observe(p, containsFocus, calls) ==
    LET open == OrDefault(p.open, FALSE)
        continues == open /\ observed.lastOpen = "true"
        before == continues /\ observed.focusInSession
        closesBefore == IF continues THEN observed.closes ELSE 0
        closes == closesBefore + calls.onRequestClose
    IN  [prevOpen |-> observed.lastOpen,
         lastOpen |-> Stored(open),
         focusBefore |-> before,
         focusInSession |-> open /\ (before \/ containsFocus),
         lastFocus |-> open /\ containsFocus,
         prevLost |-> continues /\ observed.focusInSession /\ ~observed.lastFocus,
         focusEarlier |-> IF continues
                          THEN observed.focusEarlier
                          ELSE observed.focusEarlier \/ observed.focusInSession,
         modalInSession |-> open /\ (Truthy(p.modal) \/ (continues /\ observed.modalInSession)),
         closesBefore |-> closesBefore,
         closes |-> IF ~open THEN 0
                    ELSE IF closes > MaxCloses THEN MaxCloses ELSE closes]

Init ==
    /\ properties = NoProperties
    /\ _wasOpen = "undefined"
    /\ _callFocus = FALSE
    /\ _initialFocusSet = FALSE
    /\ dnode = EmptyTree
    /\ messages = DefaultBundle
    /\ trace = [op |-> "new", which |-> 0, containsFocus |-> FALSE, calls |-> NoCalls]
    /\ observed = [prevOpen |-> "none", lastOpen |-> "none",
                   focusBefore |-> FALSE, focusInSession |-> FALSE,
                   lastFocus |-> FALSE, prevLost |-> FALSE, focusEarlier |-> FALSE,
                   modalInSession |-> FALSE, closesBefore |-> 0, closes |-> 0]

\* A render pass: the host hands over properties p (new or the same) out of P
\* and runs render(); Focus.get answers containsFocus if it is asked and
\* localizeBundle a bundle out of B.
RenderFrom(P, B) ==
    \E p \in P, containsFocus \in BOOLEAN, bundle \in B :
        LET r == render(This(p), containsFocus, bundle)
            asked == r.this.calls.focusGet > 0
        IN  /\ Commit(r.this)
            /\ dnode' = r.dnode
            /\ messages' = bundle
            /\ trace' = [op |-> "render", which |-> 0,
                         containsFocus |-> asked /\ containsFocus,
                         calls |-> r.this.calls]
            /\ observed' = Observe(p, asked /\ containsFocus, r.this.calls)

\* A render pass whose texts are left out.
Render == RenderFrom(PlainProperties, {DefaultBundle})

\* A render pass that varies the title, the close text and the locale.
RenderText == RenderFrom(TextProperties, Bundles)

\* A click on the close button of the rendered tree.
CloseClick ==
    /\ dnode.closeButton
    /\ LET t == _onCloseClick(This(properties))
       IN  /\ Commit(t)
           /\ trace' = [op |-> "closeClick", which |-> 0, containsFocus |-> FALSE,
                        calls |-> t.calls]
    /\ UNCHANGED <<dnode, messages, observed>>

\* A click on the underlay of the rendered tree.
UnderlayClick ==
    /\ dnode.underlay
    /\ LET t == _onUnderlayClick(This(properties))
       IN  /\ Commit(t)
           /\ trace' = [op |-> "underlayClick", which |-> 0, containsFocus |-> FALSE,
                        calls |-> t.calls]
    /\ UNCHANGED <<dnode, messages, observed>>

\* A key-up on the document, delivered by the GlobalEvent of the rendered tree.
KeyUp ==
    /\ dnode.global
    /\ \E which \in KeyCodes :
        LET t == _onKeyUp(This(properties), which)
        IN  /\ Commit(t)
            /\ trace' = [op |-> "keyUp", which |-> which, containsFocus |-> FALSE,
                         calls |-> t.calls]
    /\ UNCHANGED <<dnode, messages, observed>>

Next == Render \/ CloseClick \/ UnderlayClick \/ KeyUp

Spec == Init /\ [][Next]_vars

NextText == RenderText \/ CloseClick \/ UnderlayClick \/ KeyUp

SpecText == Init /\ [][NextText]_vars

(***************************************************************************)
(* Shorthands over the last step.                                          *)
(***************************************************************************)
open == OrDefault(properties.open, FALSE)
modal == Truthy(properties.modal)
closeable == OrDefault(properties.closeable, TRUE)
Rendered == trace.op = "render"
Event == trace.op \in {"closeClick", "underlayClick", "keyUp"}

\* The number of onRequestClose invocations one close request makes.
Invoked == IF closeable /\ properties.onRequestClose THEN 1 ELSE 0

\* A render pass of an open dialog that is answered "focus outside" after an
\* earlier pass of the same session was answered "focus inside".
FocusLost == Rendered /\ open /\ observed.focusBefore /\ ~trace.containsFocus

(***************************************************************************)
(* Claims.                                                                 *)
(***************************************************************************)

\* C1: a render pass invokes the supplied onOpen callback exactly once when it
\* sees open = true and the pass before it saw open = false (or there was no
\* pass before it), and not at all otherwise; no handler invokes it.
C1_OnOpenOncePerOpenTransition ==
    /\ Rendered =>
         trace.calls.onOpen =
            IF properties.onOpen /\ open /\ observed.prevOpen # "true" THEN 1 ELSE 0
    /\ ~Rendered => trace.calls.onOpen = 0

C1_Witness ==
    /\ Rendered /\ open /\ observed.prevOpen = "false"
    /\ trace.calls.onOpen = 1

\* C2: while closeable is false, no step (close-button click, underlay click,
\* Escape key-up, focus check of a render pass) invokes onRequestClose.
C2_CloseGuard == properties.closeable = "false" => trace.calls.onRequestClose = 0

C2_Witness ==
    /\ properties.closeable = "false" /\ properties.onRequestClose
    /\ trace.op = "keyUp" /\ trace.which = Keys.Escape
    /\ trace.calls.close = 1

\* C3: a render pass of an open non-modal dialog that observes focus outside,
\* after an earlier pass of the same session observed focus inside, issues one
\* close request, which invokes onRequestClose when closeable is true and the
\* callback is supplied.
C3_NonModalAutoClose ==
    (FocusLost /\ ~modal) =>
        /\ trace.calls.close = 1
        /\ trace.calls.onRequestClose = Invoked

C3_Witness == FocusLost /\ ~modal /\ trace.calls.onRequestClose = 1

\* C4: a render pass of an open modal dialog that observes focus outside, after
\* an earlier pass of the same session observed focus inside, calls Focus.set in
\* that pass and neither issues a close request nor invokes onRequestClose.
C4_ModalFocusRecapture ==
    (FocusLost /\ modal) =>
        /\ trace.calls.focusSet = 1
        /\ trace.calls.close = 0
        /\ trace.calls.onRequestClose = 0

C4_Witness ==
    /\ FocusLost /\ modal /\ closeable /\ properties.onRequestClose
    /\ trace.calls.focusSet = 1

\* C5: an underlay click issues a close request when modal is false and none
\* when modal is true, whatever the focus flags are.
C5_UnderlayClick ==
    trace.op = "underlayClick" =>
        /\ trace.calls.close = IF modal THEN 0 ELSE 1
        /\ trace.calls.onRequestClose = IF modal THEN 0 ELSE Invoked

C5_Witness ==
    /\ trace.op = "underlayClick" /\ modal /\ closeable /\ properties.onRequestClose
    /\ _initialFocusSet
    /\ trace.calls.onRequestClose = 0

\* C6: an Escape key-up delivered while the dialog is open issues a close
\* request whether the dialog is modal or not; onRequestClose is invoked when
\* closeable is true and the callback is supplied.
C6_EscapeKey ==
    (trace.op = "keyUp" /\ trace.which = Keys.Escape) =>
        /\ open
        /\ trace.calls.close = 1
        /\ trace.calls.onRequestClose = Invoked

C6_Witness ==
    /\ trace.op = "keyUp" /\ trace.which = Keys.Escape /\ modal
    /\ trace.calls.onRequestClose = 1

\* C7 as stated: a key-up with a key code other than Escape does nothing at
\* all: no close request, no change of the instance, no stopPropagation.
C7_OtherKeyHasNoEffect ==
    [][(trace'.op = "keyUp" /\ trace'.which # Keys.Escape) =>
          /\ UNCHANGED <<properties, fields, dnode>>
          /\ trace'.calls = NoCalls]_vars

\* C7 as amended: a key-up with a key code other than Escape issues no close
\* request and changes no instance state, and its propagation is stopped, as
\* it is for Escape.
C7_OtherKeyOnlyStopsPropagation ==
    [][(trace'.op = "keyUp" /\ trace'.which # Keys.Escape) =>
          /\ UNCHANGED <<properties, fields, dnode>>
          /\ trace'.calls = [NoCalls EXCEPT !.stopPropagation = 1]]_vars

C7_Witness ==
    /\ trace.op = "keyUp" /\ trace.which = Keys.Enter
    /\ trace.calls.stopPropagation = 1 /\ trace.calls.close = 0
    /\ closeable /\ properties.onRequestClose

\* C8: a render pass that sees open = false asks and sets no focus, issues no
\* close request, leaves _callFocus and _initialFocusSet as they are and
\* returns the empty container; while the last pass was closed no listener can
\* be triggered and onRequestClose is not invoked.
C8_ClosedStateInert ==
    [][/\ (trace'.op = "render" /\ ~open') =>
            /\ UNCHANGED <<_callFocus, _initialFocusSet>>
            /\ trace'.calls = NoCalls
            /\ dnode' = EmptyTree
       /\ ~open' => trace'.calls.onRequestClose = 0
       /\ ~open => trace'.op = "render"]_vars

C8_Witness ==
    /\ Rendered /\ ~open /\ observed.prevOpen = "true"
    /\ _initialFocusSet /\ _callFocus
    /\ dnode = EmptyTree

\* C9: the close-button click, underlay click and key-up handlers leave the
\* properties, _wasOpen, _callFocus and _initialFocusSet as they are; besides
\* stopping propagation they invoke onRequestClose at most once and call
\* nothing else; the three fields change only in a render pass.
C9_HandlersKeepState ==
    [][/\ trace'.op \in {"closeClick", "underlayClick", "keyUp"} =>
            /\ UNCHANGED <<properties, fields, dnode>>
            /\ trace'.calls.onRequestClose <= 1
            /\ trace'.calls.onRequestClose <= trace'.calls.close
            /\ trace'.calls.onOpen = 0
            /\ trace'.calls.focusGet = 0
            /\ trace'.calls.focusSet = 0
       /\ ~(UNCHANGED fields) => trace'.op = "render"]_vars

C9_Witness ==
    /\ trace.op = "closeClick" /\ trace.calls.onRequestClose = 1
    /\ open /\ _wasOpen = "true" /\ _callFocus

\* C10: the close-button click, the underlay click and the Escape key-up each
\* stop the event's propagation, whether or not onRequestClose is invoked.
C10_CloseEventsStopPropagation ==
    (\/ trace.op \in {"closeClick", "underlayClick"}
     \/ (trace.op = "keyUp" /\ trace.which = Keys.Escape)) =>
        trace.calls.stopPropagation = 1

C10_Witness ==
    /\ trace.op = "underlayClick" /\ modal
    /\ trace.calls.stopPropagation = 1 /\ trace.calls.close = 0

\* C11 as stated: the close control of an open, closeable dialog shows the
\* localized close phrase concatenated with the title when closeText is not
\* supplied, and exactly closeText when it is supplied.
C11_DefaultCloseText ==
    (Rendered /\ dnode.closeButton) =>
        dnode.closeText =
            IF properties.closeText = NoString
            THEN Str(messages.close \o OrEmpty(properties.title))
            ELSE properties.closeText

\* C11 as amended: the close control of an open, closeable dialog shows the
\* localized close phrase, one space and the title (the empty string when no
\* title is supplied) when closeText is not supplied or is the empty string,
\* and exactly closeText when it is a non-empty string.
C11_CloseTextOrPhraseSpaceTitle ==
    (Rendered /\ dnode.closeButton) =>
        /\ open /\ closeable
        /\ dnode.closeText =
            IF properties.closeText \in {NoString, Str(<< >>)}
            THEN Str(messages.close \o <<" ">> \o
                     (IF properties.title = NoString THEN << >> ELSE properties.title[1]))
            ELSE properties.closeText

C11_Witness ==
    /\ Rendered /\ dnode.closeButton
    /\ properties.closeText = NoString /\ properties.title = Str(<<"T", "o">>)
    /\ dnode.closeText = Str(<<"f", "e", "r", "m", "e", "r", " ", "T", "o">>)

\* A render pass that sees open = true after a pass that did not, or as the
\* first pass.
OpenTransition == Rendered /\ open /\ observed.prevOpen # "true"

\* The last render pass of an open modal dialog observed focus outside after a
\* pass of the session observed it inside.
LossPending == open /\ modal /\ observed.focusInSession /\ ~observed.lastFocus

\* C12: the render pass of an open transition sets _callFocus and clears
\* _initialFocusSet before its focus check, so a pass that observes focus
\* outside calls Focus.set in that very pass, modal or not.
C12_OpenTransitionSetsFocus ==
    (OpenTransition /\ ~trace.containsFocus) =>
        /\ _callFocus /\ ~_initialFocusSet
        /\ trace.calls.focusGet = 1
        /\ trace.calls.focusSet = 1

C12_Witness ==
    /\ OpenTransition /\ ~trace.containsFocus /\ ~modal
    /\ observed.focusEarlier
    /\ trace.calls.focusSet = 1

\* C13: an open render pass that observes focus inside ends with _callFocus
\* false and _initialFocusSet true and makes neither a Focus.set call nor a
\* close request; Focus.set is called only by an open render pass that
\* observes focus outside.
C13_FocusInsideSettles ==
    /\ (Rendered /\ open /\ trace.containsFocus) =>
          /\ ~_callFocus /\ _initialFocusSet
          /\ trace.calls.focusSet = 0
          /\ trace.calls.close = 0
    /\ trace.calls.focusSet > 0 => (Rendered /\ open /\ ~trace.containsFocus)

C13_Witness ==
    /\ OpenTransition /\ trace.containsFocus
    /\ ~_callFocus /\ _initialFocusSet
    /\ trace.calls.focusSet = 0

\* C14: while no render pass of the open session has observed focus inside,
\* the focus-lost branch is not entered: no pass issues a close request or
\* takes the modal re-capture branch, modal or not.
C14_NoFocusLossBeforeFocus ==
    (Rendered /\ open /\ ~observed.focusInSession) =>
        /\ trace.calls.focusLost = 0
        /\ trace.calls.close = 0
        /\ trace.calls.onRequestClose = 0

C14_Witness ==
    /\ Rendered /\ open /\ ~observed.focusInSession
    /\ observed.prevOpen = "true" /\ modal
    /\ trace.calls.focusSet = 1

\* C15: no render pass both issues a close request and calls Focus.set.
C15_CloseOrRefocusNeverBoth ==
    Rendered => ~(trace.calls.close > 0 /\ trace.calls.focusSet > 0)

\* C16: _initialFocusSet goes from true to false only in the render pass of an
\* open transition, that pass leaves the flags reset when it observes focus
\* outside, and focus observed in an earlier session causes no focus-loss
\* close request or re-capture before the session has observed focus itself.
C16_FlagsResetAtOpenTransition ==
    [][/\ (_initialFocusSet /\ ~_initialFocusSet') =>
            (trace'.op = "render" /\ open' /\ observed'.prevOpen # "true")
       /\ (trace'.op = "render" /\ open' /\ observed'.prevOpen # "true"
            /\ ~trace'.containsFocus) =>
            (~_initialFocusSet' /\ _callFocus')
       /\ (trace'.op = "render" /\ open' /\ observed'.focusEarlier
            /\ ~observed'.focusInSession) =>
            (trace'.calls.focusLost = 0 /\ trace'.calls.close = 0)]_vars

C16_Witness ==
    /\ OpenTransition /\ observed.prevOpen = "false"
    /\ observed.focusEarlier /\ ~observed.focusInSession
    /\ ~_initialFocusSet

\* C17: while open and modal hold, from a render pass that detects focus loss
\* to the first later pass that observes focus inside, _callFocus stays true
\* and every pass in between calls Focus.set again; the pass that observes
\* focus inside clears _callFocus and sets no focus.
C17_ModalTrapPersists ==
    [][/\ LossPending' => _callFocus'
       /\ (LossPending /\ trace'.op = "render" /\ open' /\ modal') =>
            IF trace'.containsFocus
            THEN ~_callFocus' /\ trace'.calls.focusSet = 0
            ELSE /\ _callFocus'
                 /\ trace'.calls.focusSet = 1
                 /\ trace'.calls.close = 0]_vars

C17_Witness ==
    /\ Rendered /\ LossPending /\ observed.prevLost
    /\ trace.calls.focusSet = 1

\* C18: the render pass of an open transition issues no close request and
\* invokes no onRequestClose; onOpen and a close request never happen in the
\* same pass.
C18_NoCloseOnOpenTransition ==
    /\ OpenTransition =>
          /\ trace.calls.close = 0
          /\ trace.calls.onRequestClose = 0
          /\ trace.calls.focusLost = 0
    /\ trace.calls.onOpen > 0 => trace.calls.close = 0

C18_Witness ==
    /\ OpenTransition /\ observed.focusEarlier /\ ~trace.containsFocus
    /\ ~modal /\ closeable /\ properties.onRequestClose
    /\ trace.calls.onOpen = 1

\* C19: the focus-loss close request is not latched: a render pass of an open,
\* closeable, non-modal dialog that observes focus outside invokes
\* onRequestClose again, however many passes of the session have invoked it
\* before.
C19_CloseRequestNotLatched ==
    (/\ Rendered /\ open /\ ~modal /\ closeable /\ properties.onRequestClose
     /\ observed.closesBefore >= 1
     /\ ~trace.containsFocus) =>
        /\ trace.calls.close = 1
        /\ trace.calls.onRequestClose = 1

C19_Witness ==
    /\ Rendered /\ ~modal /\ ~trace.containsFocus
    /\ observed.closesBefore = MaxCloses - 1 /\ observed.closes = MaxCloses
    /\ trace.calls.onRequestClose = 1

\* C20: in an open session no render pass of which saw modal = true, a pass
\* that observes focus inside, or follows one that did, does not call
\* Focus.set and leaves _callFocus false.
C20_NonModalNeverRefocuses ==
    (Rendered /\ open /\ ~observed.modalInSession /\ observed.focusInSession) =>
        /\ trace.calls.focusSet = 0
        /\ ~_callFocus

C20_Witness ==
    /\ Rendered /\ open /\ ~observed.modalInSession
    /\ observed.focusBefore /\ ~trace.containsFocus
    /\ trace.calls.close = 1 /\ trace.calls.focusSet = 0
====
